---- MODULE Spec2Model ----
(***************************************************************************)
(* The session layer of src/providers/AuthProvider.tsx (AuthProvider and   *)
(* useAuthContext) as a state machine.                                     *)
(*                                                                         *)
(* The four useState cells are the variables user, profile, authLoading    *)
(* and authErrorMessages.  A callback's setState calls are applied as one  *)
(* batch (one action); rendering and the passive effect that follows a     *)
(* render are separate steps, and a pending effect is flushed before the   *)
(* next render, as the UI framework schedules them.  The identity service  *)
(* and the document store are the environment: they resolve or reject the  *)
(* awaited calls and deliver stream and snapshot callbacks in any order.   *)
(***************************************************************************)
EXTENDS Naturals, Sequences, FiniteSets, TLC

\* ---------------------------------------------------------------- bounds
\* Renders of the FirebaseProvider in one run: the first one, the one its
\* effect causes and those its parent causes.
MaxRenders == 3

\* Inputs from outside the component in one run: calls of login, logout and
\* register by the consuming UI, and identity changes the service reports
\* without a call from this component (a session ended elsewhere, another
\* sign-in).
MaxInputs == 2

\* ---------------------------------------------------------------- values
None == "none"
Uid == {"u1", "u2"}
Emails == {"a@x.com", "b@x.com"}
GoodPassword == "pw"
Passwords == {GoodPassword, "bad"}
\* register's third parameter; '' is the default when it is omitted.
DisplayNames == {"", "Bob"}

\* The identity service's account behind an e-mail address.
UidOf(email) == IF email = "a@x.com" THEN "u1" ELSE "u2"

\* profile holds null (initial value, reset), undefined (a snapshot of a
\* missing document) or the document's fields.
Null == [kind |-> "null"]
Undefined == [kind |-> "undefined"]
Missing == [kind |-> "missing"]
IsNone(p) == p = Null \/ p = Undefined

\* A document that is in the store before the component mounts.
StoredDoc(uid) == [kind |-> "doc", uid |-> uid, email |-> "a@x.com", displayName |-> "Carl", dateCreated |-> "t0"]

\* authErrorMessages is either undefined or an array the code has just
\* built, which is never empty; undefined is the empty sequence here.
NoMessages == << >>

PROFILE_COLLECTION == "users"

\* `No profile doc found in Firestore at: ${docRef.path}`
NotFoundText(uid) == IF uid = "u1" THEN "No profile doc found in Firestore at: users/u1" ELSE "No profile doc found in Firestore at: users/u2"

FirestoreHint == "Have you initialized your Firestore database?"
EmailProviderHint == "Did you enable the Email Provider in Firebase Auth?"
FirestoreEnableHint == "Did you enable the Firestore Database in your Firebase project?"

\* What a rejected remote call throws: an Error with its own message
\* property, or a value without one.
SignInErrors == {[own |-> TRUE, message |-> "invalid password", json |-> ""], [own |-> FALSE, message |-> "undefined", json |-> "{\"code\":\"auth/network\"}"]}
SignOutErrors == {[own |-> TRUE, message |-> "sign-out failed", json |-> ""], [own |-> FALSE, message |-> "undefined", json |-> "{\"code\":\"auth/network\"}"]}
CreateErrors == {[own |-> TRUE, message |-> "email-already-in-use", json |-> ""]}
WriteErrors == {[own |-> TRUE, message |-> "permission-denied", json |-> ""]}
SnapshotErrors == {[own |-> TRUE, message |-> "Missing or insufficient permissions.", json |-> ""]}

\* Object.hasOwnProperty.call(ex, 'message') ? ex.message : JSON.stringify(ex)
MsgOf(ex) == IF ex.own THEN ex.message ELSE ex.json

\* ---------------------------------------------------------------- state
VARIABLES
  mounted,            \* the AuthProvider is mounted
  user,               \* useState cell: None or the uid of the User
  profile,            \* useState cell
  authLoading,        \* useState cell
  authErrorMessages,  \* useState cell
  dirty,              \* a cell changed since the last render: a render is due
  view,               \* `user` and `authLoading` as the last committed render read them
  depUser,            \* `user` at the last run of the profile-listener effect
  effPending,         \* the last render's profile-listener effect has not run yet
  everShown,          \* the provider has rendered its children at least once
  sub,                \* the document subscription opened by the effect
  authCur,            \* the identity service's current user
  authQ,              \* onAuthStateChanged callbacks not yet delivered
  accounts,           \* uids that have an account at the identity service
  docs,               \* the document store's users collection
  loginOp,            \* the login call in flight
  logoutOp,           \* the logout call in flight
  registerOp,         \* the register call in flight
  returned,           \* the operation this step returned from, and its value
  calls,              \* history: the operations called, in order
  nExt,               \* history: external identity changes so far
  lastEvent,          \* history: the last stream event delivered
  sawIdentity,        \* history: some stream event delivered an Identity
  hook,               \* the last useAuthContext call and its outcome
  firebaseInitializing, \* FirebaseProvider's useState cell
  fbPhase,            \* FirebaseProvider's next step: "render", "effect" or "idle"
  fbValue,            \* what FirebaseProvider's last render published, if anything
  fbSeen,             \* history: the context values FirebaseProvider has published
  fbRenders           \* history: FirebaseProvider's renders so far

vars == <<mounted, user, profile, authLoading, authErrorMessages, dirty, view, depUser, effPending, everShown, sub, authCur, authQ, accounts, docs, loginOp, logoutOp, registerOp, returned, calls, nExt, lastEvent, sawIdentity, hook, firebaseInitializing, fbPhase, fbValue, fbSeen, fbRenders>>

reactVars == <<user, profile, authLoading, authErrorMessages>>
renderVars == <<view, depUser, effPending, everShown>>
\* A setState call that changes a cell schedules a render.
Schedule == dirty' = (dirty \/ (mounted /\ <<user, profile, authLoading, authErrorMessages>>' # <<user, profile, authLoading, authErrorMessages>>))
serviceVars == <<authCur, authQ, accounts, docs>>
opVars == <<loginOp, logoutOp, registerOp>>

histVars == <<calls, nExt, lastEvent, sawIdentity>>
clientVars == <<firebaseInitializing, fbPhase, fbValue, fbSeen, fbRenders>>

InitialAccounts == {"u1"}

NoSub == [uid |-> None, st |-> "closed"]
\* An operation's record: where the call is (pc), its arguments and what the
\* awaited remote call produced.  `returned` is the step's output: the
\* operation whose promise this step settled and the value it resolved to,
\* NoRet after a step that settles none.
NoRet == [op |-> "-", val |-> "-"]
Returns(op, val) == [op |-> op, val |-> val]
\* The step settles no operation's promise.
NoReturn == returned' = NoRet
\* The budget of outside inputs is not used up.
MoreInput == Len(calls) + nExt < MaxInputs
IdleLogin == [pc |-> "idle", email |-> "", password |-> "", uid |-> None]
IdleLogout == [pc |-> "idle", touched |-> FALSE]
IdleRegister == [pc |-> "idle", email |-> "", displayName |-> "", uid |-> None]
\* No stream event has been delivered yet.
NoEvent == "-"
NoHook == [inside |-> FALSE, outcome |-> "-"]

\* A state setter of a component that is no longer mounted does nothing.
SetState(old, new) == IF mounted THEN new ELSE old

\* ------------------------------------------------- FirebaseProvider values
\* The module-level handles of the FirebaseProvider's module: each is
\* created when the module is evaluated, and `ref` is the object's identity.
myApp == [kind |-> "app", ref |-> 1]
myFS == [kind |-> "firestore", ref |-> 2]
myAuth == [kind |-> "auth", ref |-> 3]

\* A handle that is null or undefined.
NoHandle == [kind |-> "none", ref |-> 0]

\* theValues of the FirebaseProvider's render.
FirebaseTheValues == [myApp |-> myApp, myAuth |-> myAuth, myFS |-> myFS]

\* The FirebaseProvider's render returned null: nothing is published and no
\* child is rendered.
NotPublished == [myApp |-> NoHandle, myAuth |-> NoHandle, myFS |-> NoHandle]

\* ---------------------------------------------------------------- Init
\* The component has mounted: the first render read the initial cells, the
\* onAuthStateChanged effect has subscribed (the service owes the first
\* callback, with the restored session or none) and the profile-listener
\* effect has run its `else if (!user)` branch, which changed nothing.
Init ==
  /\ mounted = TRUE
  /\ user = None
  /\ profile = Null
  /\ authLoading = TRUE
  /\ authErrorMessages = NoMessages
  /\ dirty = FALSE
  /\ view = [user |-> None, authLoading |-> TRUE]
  /\ depUser = None
  /\ effPending = FALSE
  /\ everShown = FALSE
  /\ sub = NoSub
  /\ accounts = InitialAccounts
  /\ authCur \in accounts \cup {None}
  /\ authQ = <<authCur>>
  /\ docs \in {[u \in Uid |-> Missing], [u \in Uid |-> IF u = "u1" THEN StoredDoc(u) ELSE Missing]}
  /\ loginOp = IdleLogin
  /\ logoutOp = IdleLogout
  /\ registerOp = IdleRegister
  /\ returned = NoRet
  /\ calls = << >>
  /\ nExt = 0
  /\ lastEvent = NoEvent
  /\ sawIdentity = FALSE
  /\ hook = NoHook
  /\ firebaseInitializing = FALSE
  /\ fbPhase = "idle"
  /\ fbValue = FirebaseTheValues
  /\ fbSeen = {FirebaseTheValues}
  /\ fbRenders = 2

\* ------------------------------------------------- identity stream
\* The identity service notifies its listeners of a change of its current
\* user; with no listener (after unmount) nothing is queued.
Notify(q, v) == IF mounted THEN Append(q, v) ELSE q

\* A write of `user` while a logout call is in flight is noted in its record.
NoteUserWrite == [logoutOp EXCEPT !.touched = (logoutOp.pc # "idle")]

\* onAuthStateChanged callback: setUser(user); setAuthLoading(false).
AuthStateChanged ==
  /\ mounted
  /\ authQ # << >>
  /\ user' = Head(authQ)
  /\ authLoading' = FALSE
  /\ authQ' = Tail(authQ)
  /\ lastEvent' = Head(authQ)
  /\ sawIdentity' = (sawIdentity \/ Head(authQ) # None)
  /\ logoutOp' = NoteUserWrite
  /\ UNCHANGED <<mounted, profile, authErrorMessages, renderVars, sub, authCur, accounts, docs, loginOp, registerOp, calls, nExt, hook, clientVars>>
  /\ NoReturn
  /\ Schedule

\* The service's current user changes without a call from this component.
ExternalAuthChange(v) ==
  /\ mounted
  /\ MoreInput
  /\ v \in accounts \cup {None}
  /\ nExt' = nExt + 1
  /\ authCur' = v
  /\ authQ' = Notify(authQ, v)
  /\ UNCHANGED <<mounted, reactVars, dirty, renderVars, sub, accounts, docs, opVars, calls, lastEvent, sawIdentity, hook, clientVars>>
  /\ NoReturn

\* ------------------------------------------------- render and effect
\* theValues of the last render, with the cells the render itself reads.
theValues == [kind |-> "values", authLoading |-> view.authLoading, user |-> view.user]

\* The render published no context value.
NoValues == [kind |-> "null"]

\* Mutant of RenderOutput: the provider element is returned whatever
\* authLoading is.
RenderOutput_AlwaysPublishes == [children |-> TRUE, value |-> theValues]

\* What the last render returned: null when it read authLoading as true,
\* else the provider element with theValues around the children.
RenderOutput == IF view.authLoading THEN [children |-> FALSE, value |-> NoValues] ELSE [children |-> TRUE, value |-> theValues]

\* A render commits: it reads the cells, and the profile-listener effect is
\* scheduled when `user` differs from the effect's last dependency.  The
\* effect of the previous render is flushed before a new render starts.
Render ==
  /\ mounted
  /\ dirty
  /\ ~effPending
  /\ dirty' = FALSE
  /\ view' = [user |-> user, authLoading |-> authLoading]
  /\ effPending' = (user # depUser)
  /\ everShown' = (everShown \/ RenderOutput'.children)
  /\ UNCHANGED <<mounted, reactVars, depUser, sub, serviceVars, opVars, histVars, hook, clientVars>>
  /\ NoReturn

\* listenToUserDoc(uid): onSnapshot on users/<uid>; the first snapshot is owed.
listenToUserDoc(uid) == [uid |-> uid, st |-> "pending"]

\* Mutants of ResetSession: the reset leaves the profile, or the error
\* messages, as they are.
ResetSession_KeepsProfile ==
  /\ authLoading' = TRUE
  /\ profile' = profile
  /\ authErrorMessages' = NoMessages

ResetSession_KeepsErrors ==
  /\ authLoading' = TRUE
  /\ profile' = Null
  /\ authErrorMessages' = authErrorMessages

\* The effect's `else if (!user)` branch: setAuthLoading(true);
\* setProfile(null); setAuthErrorMessages(undefined).
ResetSession ==
  /\ authLoading' = TRUE
  /\ profile' = Null
  /\ authErrorMessages' = NoMessages

\* The profile-listener effect: the previous run's cleanup (unsubscribeFn,
\* when that run returned one), then the body with the rendered `user`.
ProfileEffect ==
  /\ mounted
  /\ effPending
  /\ effPending' = FALSE
  /\ depUser' = view.user
  /\ IF view.user # None
       THEN /\ sub' = listenToUserDoc(view.user)
            /\ UNCHANGED <<authLoading, profile, authErrorMessages>>
       ELSE /\ sub' = NoSub
            /\ ResetSession
  /\ UNCHANGED <<mounted, user, view, everShown, serviceVars, opVars, histVars, hook, clientVars>>
  /\ NoReturn
  /\ Schedule

\* ------------------------------------------------- document snapshots
\* docSnap.data(): the fields, or undefined when the document is missing.
SnapData(uid) == IF docs[uid] = Missing THEN Undefined ELSE docs[uid]

\* onSnapshot success callback.
DocSnapshot ==
  /\ mounted
  /\ sub.st = "pending"
  /\ sub' = [sub EXCEPT !.st = "idle"]
  /\ authErrorMessages' = IF SnapData(sub.uid) = Undefined THEN <<NotFoundText(sub.uid)>> ELSE authErrorMessages
  /\ profile' = SnapData(sub.uid)
  /\ UNCHANGED <<mounted, user, authLoading, renderVars, serviceVars, opVars, histVars, hook, clientVars>>
  /\ NoReturn
  /\ Schedule

\* Mutant of DocSnapshotError: a failure of the watch puts the session back
\* into loading.
DocSnapshotError_BackToLoading(err) ==
  /\ mounted
  /\ sub.st \in {"pending", "idle"}
  /\ sub' = [sub EXCEPT !.st = "dead"]
  /\ authErrorMessages' = <<err.message, FirestoreHint>>
  /\ authLoading' = TRUE
  /\ UNCHANGED <<mounted, user, profile, renderVars, serviceVars, opVars, histVars, hook, clientVars>>
  /\ NoReturn
  /\ Schedule

\* onSnapshot error callback; the listener delivers nothing afterwards.
DocSnapshotError(err) ==
  /\ mounted
  /\ sub.st \in {"pending", "idle"}
  /\ sub' = [sub EXCEPT !.st = "dead"]
  /\ authErrorMessages' = <<err.message, FirestoreHint>>
  /\ UNCHANGED <<mounted, user, profile, authLoading, renderVars, serviceVars, opVars, histVars, hook, clientVars>>
  /\ NoReturn
  /\ Schedule

\* Mutant of Unmount: the document subscription's unsubscribeFn is not
\* called.
Unmount_KeepsDocSubscription ==
  /\ mounted
  /\ mounted' = FALSE
  /\ authQ' = << >>
  /\ UNCHANGED <<reactVars, dirty, renderVars, sub, authCur, accounts, docs, opVars, histVars, hook, clientVars>>
  /\ NoReturn

\* Unmount: both effects' cleanups run (unsubscribe from the identity
\* stream, unsubscribeFn of the document subscription).
Unmount ==
  /\ mounted
  /\ mounted' = FALSE
  /\ sub' = NoSub
  /\ authQ' = << >>
  /\ UNCHANGED <<reactVars, dirty, renderVars, authCur, accounts, docs, opVars, histVars, hook, clientVars>>
  /\ NoReturn

\* ------------------------------------------------- login
\* The UI holds the operations once the provider has rendered its children.
CanCall == mounted /\ everShown /\ MoreInput

\* loginFunction up to its await: signInWithEmailAndPassword is in flight.
LoginCall(email, password) ==
  /\ CanCall
  /\ loginOp.pc = "idle"
  /\ loginOp' = [pc |-> "awaitSignIn", email |-> email, password |-> password, uid |-> None]
  /\ calls' = Append(calls, "login")
  /\ UNCHANGED <<mounted, reactVars, dirty, renderVars, sub, serviceVars, logoutOp, registerOp, nExt, lastEvent, sawIdentity, hook, clientVars>>
  /\ NoReturn

\* The identity service accepts the sign-in: the account becomes its current
\* user and its listeners are notified of the change.
SignInResolve ==
  /\ loginOp.pc = "awaitSignIn"
  /\ UidOf(loginOp.email) \in accounts
  /\ loginOp.password = GoodPassword
  /\ authCur' = UidOf(loginOp.email)
  /\ authQ' = IF authCur # UidOf(loginOp.email) THEN Notify(authQ, UidOf(loginOp.email)) ELSE authQ
  /\ loginOp' = [loginOp EXCEPT !.pc = "resolved", !.uid = UidOf(loginOp.email)]
  /\ UNCHANGED <<mounted, reactVars, dirty, renderVars, sub, accounts, docs, logoutOp, registerOp, histVars, hook, clientVars>>
  /\ NoReturn

\* Mutant of LoginSucceed: returns true and leaves the identity to the
\* stream callback.
LoginSucceed_LeavesIdentityToStream ==
  /\ loginOp.pc = "resolved"
  /\ loginOp' = IdleLogin
  /\ returned' = Returns("login", "true")
  /\ UNCHANGED <<mounted, reactVars, dirty, renderVars, sub, serviceVars, logoutOp, registerOp, histVars, hook, clientVars>>

\* Mutant of LoginSucceed: a logout called since the login was called
\* cancels the login's setUser.
LoginSucceed_CancelledByLogout ==
  /\ loginOp.pc = "resolved"
  /\ user' = IF calls[Len(calls)] = "logout" THEN user ELSE SetState(user, loginOp.uid)
  /\ logoutOp' = NoteUserWrite
  /\ loginOp' = IdleLogin
  /\ returned' = Returns("login", "true")
  /\ UNCHANGED <<mounted, profile, authLoading, authErrorMessages, renderVars, sub, serviceVars, registerOp, histVars, hook, clientVars>>
  /\ Schedule

\* loginFunction after the await, try branch: setUser(user); return true.
LoginSucceed ==
  /\ loginOp.pc = "resolved"
  /\ user' = SetState(user, loginOp.uid)
  /\ logoutOp' = NoteUserWrite
  /\ loginOp' = IdleLogin
  /\ returned' = Returns("login", "true")
  /\ UNCHANGED <<mounted, profile, authLoading, authErrorMessages, renderVars, sub, serviceVars, registerOp, histVars, hook, clientVars>>
  /\ Schedule

\* Mutant of LoginFail: the catch branch also clears the identity.
LoginFail_ClearsIdentity(ex) ==
  /\ loginOp.pc = "awaitSignIn"
  /\ authErrorMessages' = SetState(authErrorMessages, <<MsgOf(ex)>>)
  /\ user' = SetState(user, None)
  /\ logoutOp' = NoteUserWrite
  /\ loginOp' = IdleLogin
  /\ returned' = Returns("login", "false")
  /\ UNCHANGED <<mounted, profile, authLoading, renderVars, sub, serviceVars, registerOp, histVars, hook, clientVars>>
  /\ Schedule

\* The identity service rejects the sign-in with ex, and loginFunction's
\* catch branch runs: setAuthErrorMessages([msg]); return false.
LoginFail(ex) ==
  /\ loginOp.pc = "awaitSignIn"
  /\ authErrorMessages' = SetState(authErrorMessages, <<MsgOf(ex)>>)
  /\ loginOp' = IdleLogin
  /\ returned' = Returns("login", "false")
  /\ UNCHANGED <<mounted, user, profile, authLoading, renderVars, sub, serviceVars, logoutOp, registerOp, histVars, hook, clientVars>>
  /\ Schedule

\* ------------------------------------------------- logout
\* Mutant of LogoutCall: signOut is invoked with the identity still in place.
LogoutCall_KeepsIdentity ==
  /\ CanCall
  /\ logoutOp.pc = "idle"
  /\ logoutOp' = [pc |-> "awaitSignOut", touched |-> FALSE]
  /\ calls' = Append(calls, "logout")
  /\ UNCHANGED <<mounted, reactVars, dirty, renderVars, sub, serviceVars, loginOp, registerOp, nExt, lastEvent, sawIdentity, hook, clientVars>>
  /\ NoReturn

\* logoutFunction up to its await: setUser(null), then signOut is in flight.
LogoutCall ==
  /\ CanCall
  /\ logoutOp.pc = "idle"
  /\ user' = SetState(user, None)
  /\ logoutOp' = [pc |-> "awaitSignOut", touched |-> FALSE]
  /\ calls' = Append(calls, "logout")
  /\ UNCHANGED <<mounted, profile, authLoading, authErrorMessages, renderVars, sub, serviceVars, loginOp, registerOp, nExt, lastEvent, sawIdentity, hook, clientVars>>
  /\ NoReturn
  /\ Schedule

\* The identity service signs out and notifies its listeners of the change;
\* logoutFunction's try branch returns true.
LogoutSucceed ==
  /\ logoutOp.pc = "awaitSignOut"
  /\ authCur' = None
  /\ authQ' = IF authCur # None THEN Notify(authQ, None) ELSE authQ
  /\ logoutOp' = IdleLogout
  /\ returned' = Returns("logout", "true")
  /\ UNCHANGED <<mounted, reactVars, dirty, renderVars, sub, accounts, docs, loginOp, registerOp, histVars, hook, clientVars>>

\* Mutant of LogoutFail: the failure is not caught and the promise rejects.
LogoutFail_Rethrows(ex) ==
  /\ logoutOp.pc = "awaitSignOut"
  /\ logoutOp' = IdleLogout
  /\ returned' = Returns("logout", "rejects")
  /\ UNCHANGED <<mounted, reactVars, dirty, renderVars, sub, serviceVars, loginOp, registerOp, histVars, hook, clientVars>>

\* The identity service fails to sign out with ex, and logoutFunction's
\* catch branch runs: setAuthErrorMessages([msg]); return false.
LogoutFail(ex) ==
  /\ logoutOp.pc = "awaitSignOut"
  /\ authErrorMessages' = SetState(authErrorMessages, <<MsgOf(ex)>>)
  /\ logoutOp' = IdleLogout
  /\ returned' = Returns("logout", "false")
  /\ UNCHANGED <<mounted, user, profile, authLoading, renderVars, sub, serviceVars, loginOp, registerOp, histVars, hook, clientVars>>
  /\ Schedule

\* ------------------------------------------------- register
\* registerFunction up to its first await: createUserWithEmailAndPassword
\* is in flight.
RegisterCall(email, displayName) ==
  /\ CanCall
  /\ registerOp.pc = "idle"
  /\ registerOp' = [pc |-> "awaitCreate", email |-> email, displayName |-> displayName, uid |-> None]
  /\ calls' = Append(calls, "register")
  /\ UNCHANGED <<mounted, reactVars, dirty, renderVars, sub, serviceVars, loginOp, logoutOp, nExt, lastEvent, sawIdentity, hook, clientVars>>
  /\ NoReturn

\* Mutant of RegisterCreateFailed: the first catch records the error and
\* falls through to the document write.
RegisterCreateFailed_StillWrites(ex) ==
  /\ registerOp.pc = "awaitCreate"
  /\ authErrorMessages' = SetState(authErrorMessages, <<ex.message, EmailProviderHint>>)
  /\ docs' = [docs EXCEPT ![UidOf(registerOp.email)] = [kind |-> "doc", uid |-> UidOf(registerOp.email), email |-> registerOp.email, displayName |-> registerOp.displayName, dateCreated |-> "serverTimestamp"]]
  /\ registerOp' = IdleRegister
  /\ returned' = Returns("register", "false")
  /\ UNCHANGED <<mounted, user, profile, authLoading, renderVars, sub, authCur, authQ, accounts, loginOp, logoutOp, histVars, hook, clientVars>>
  /\ Schedule

\* The identity service refuses to create the account with ex, and
\* registerFunction's first catch runs: setAuthErrorMessages([ex.message,
\* hint]); return false.
RegisterCreateFailed(ex) ==
  /\ registerOp.pc = "awaitCreate"
  /\ authErrorMessages' = SetState(authErrorMessages, <<ex.message, EmailProviderHint>>)
  /\ registerOp' = IdleRegister
  /\ returned' = Returns("register", "false")
  /\ UNCHANGED <<mounted, user, profile, authLoading, renderVars, sub, serviceVars, loginOp, logoutOp, histVars, hook, clientVars>>
  /\ Schedule

\* userDocData of registerFunction.
UserDocData(uid, email, displayName) == [kind |-> "doc", uid |-> uid, email |-> email, displayName |-> displayName, dateCreated |-> "serverTimestamp"]

\* The identity service creates the account, signs it in and notifies its
\* listeners; registerFunction goes on to its second await:
\* setDoc(users/<uid>, userDocData) is in flight.
RegisterSetDoc ==
  /\ registerOp.pc = "awaitCreate"
  /\ UidOf(registerOp.email) \notin accounts
  /\ accounts' = accounts \cup {UidOf(registerOp.email)}
  /\ authCur' = UidOf(registerOp.email)
  /\ authQ' = Notify(authQ, UidOf(registerOp.email))
  /\ registerOp' = [registerOp EXCEPT !.pc = "awaitSetDoc", !.uid = UidOf(registerOp.email)]
  /\ UNCHANGED <<mounted, reactVars, dirty, renderVars, sub, docs, loginOp, logoutOp, histVars, hook, clientVars>>
  /\ NoReturn

\* The document a subscription watches has changed: a live listener owes a
\* snapshot.
Touch(s, uid) == IF s.uid = uid /\ s.st \in {"pending", "idle"} THEN [s EXCEPT !.st = "pending"] ELSE s

\* The document store applies the write; registerFunction returns true.
RegisterSucceed ==
  /\ registerOp.pc = "awaitSetDoc"
  /\ docs' = [docs EXCEPT ![registerOp.uid] = UserDocData(registerOp.uid, registerOp.email, registerOp.displayName)]
  /\ sub' = Touch(sub, registerOp.uid)
  /\ registerOp' = IdleRegister
  /\ returned' = Returns("register", "true")
  /\ UNCHANGED <<mounted, reactVars, dirty, renderVars, authCur, authQ, accounts, loginOp, logoutOp, histVars, hook, clientVars>>

\* The document store refuses the write with ex, and registerFunction's
\* second catch runs: setAuthErrorMessages([ex.message, hint]); return false.
RegisterWriteFailed(ex) ==
  /\ registerOp.pc = "awaitSetDoc"
  /\ authErrorMessages' = SetState(authErrorMessages, <<ex.message, FirestoreEnableHint>>)
  /\ registerOp' = IdleRegister
  /\ returned' = Returns("register", "false")
  /\ UNCHANGED <<mounted, user, profile, authLoading, renderVars, sub, serviceVars, loginOp, logoutOp, histVars, hook, clientVars>>
  /\ Schedule

\* ------------------------------------------------- useAuthContext
\* createContext<AuthContextValues>({} as AuthContextValues)
DefaultContext == [kind |-> "empty"]

\* useContext(AuthContext): the nearest provider's value, or the default.
UseContext(inside) == IF inside THEN RenderOutput.value ELSE DefaultContext

\* useAuthContext: throws when the context is undefined, else returns it.
useAuthContext(context) == IF context = Undefined THEN "throws" ELSE "returns"

\* A component calls the hook, below the provider (which then renders its
\* children) or in a tree without one.
HookCall(inside) ==
  /\ inside => (mounted /\ RenderOutput.children)
  /\ hook' = [inside |-> inside, outcome |-> useAuthContext(UseContext(inside))]
  /\ UNCHANGED <<mounted, reactVars, dirty, renderVars, sub, serviceVars, opVars, histVars, clientVars>>
  /\ NoReturn

\* ------------------------------------------------- FirebaseProvider
\* Mutant of FirebaseRenderOutput: the children are rendered in the first
\* render too, around handles that are not there yet.
FirebaseRenderOutput_PublishesEarly == IF firebaseInitializing THEN [children |-> TRUE, value |-> NotPublished] ELSE [children |-> TRUE, value |-> FirebaseTheValues]

\* What a render of the FirebaseProvider returns: null while
\* firebaseInitializing, else the provider element around the children.
FirebaseRenderOutput == IF firebaseInitializing THEN [children |-> FALSE, value |-> NotPublished] ELSE [children |-> TRUE, value |-> FirebaseTheValues]

\* A render of the FirebaseProvider commits.  Its effect has the
\* dependencies [myAuth, myFS], which never change: it runs after the first
\* render only.
FirebaseRender ==
  /\ fbPhase = "render"
  /\ fbValue' = FirebaseRenderOutput.value
  /\ fbSeen' = IF FirebaseRenderOutput.children THEN fbSeen \cup {FirebaseRenderOutput.value} ELSE fbSeen
  /\ fbRenders' = fbRenders + 1
  /\ fbPhase' = IF fbRenders = 0 THEN "effect" ELSE "idle"
  /\ UNCHANGED <<mounted, firebaseInitializing, reactVars, dirty, renderVars, sub, serviceVars, opVars, returned, histVars, hook>>

\* The FirebaseProvider's effect: setFirebaseInitializing(false).
FirebaseEffect ==
  /\ fbPhase = "effect"
  /\ firebaseInitializing' = FALSE
  /\ fbPhase' = "render"
  /\ UNCHANGED <<mounted, fbValue, fbSeen, fbRenders, reactVars, dirty, renderVars, sub, serviceVars, opVars, returned, histVars, hook>>

\* The FirebaseProvider's parent renders it again.
FirebaseRerender ==
  /\ fbPhase = "idle"
  /\ fbRenders < MaxRenders
  /\ fbPhase' = "render"
  /\ UNCHANGED <<mounted, firebaseInitializing, fbValue, fbSeen, fbRenders, reactVars, dirty, renderVars, sub, serviceVars, opVars, returned, histVars, hook>>

\* The AuthProvider mounts below the FirebaseProvider, which has rendered
\* its children: useFirebaseContext() gives it myAuth and myFS, its first
\* render reads the initial cells and its onAuthStateChanged effect
\* subscribes `if (myAuth)`, so that the service owes the first callback.
Mount ==
  /\ ~mounted
  /\ fbSeen # {}
  /\ mounted' = TRUE
  /\ authQ' = IF fbValue.myAuth # NoHandle THEN <<authCur>> ELSE << >>
  /\ UNCHANGED <<clientVars, reactVars, dirty, renderVars, sub, authCur, accounts, docs, opVars, returned, histVars, hook>>

\* ------------------------------------------------- specifications
\* The mounted session: streams, renders, effects and the three operations.
Next ==
  \/ AuthStateChanged
  \/ \E v \in Uid \cup {None} : ExternalAuthChange(v)
  \/ Render
  \/ ProfileEffect
  \/ DocSnapshot
  \/ \E err \in SnapshotErrors : DocSnapshotError(err)
  \/ \E e \in Emails, p \in Passwords : LoginCall(e, p)
  \/ SignInResolve
  \/ LoginSucceed
  \/ \E ex \in SignInErrors : LoginFail(ex)
  \/ LogoutCall
  \/ LogoutSucceed
  \/ \E ex \in SignOutErrors : LogoutFail(ex)
  \/ \E e \in Emails, d \in DisplayNames : RegisterCall(e, d)
  \/ \E ex \in CreateErrors : RegisterCreateFailed(ex)
  \/ RegisterSetDoc
  \/ RegisterSucceed
  \/ \E ex \in WriteErrors : RegisterWriteFailed(ex)

Spec == Init /\ [][Next]_vars

\* The session driven by its two streams, with components calling the hook.
HookNext ==
  \/ AuthStateChanged
  \/ \E v \in Uid \cup {None} : ExternalAuthChange(v)
  \/ Render
  \/ ProfileEffect
  \/ DocSnapshot
  \/ \E err \in SnapshotErrors : DocSnapshotError(err)
  \/ \E b \in BOOLEAN : HookCall(b)

HookSpec == Init /\ [][HookNext]_vars

\* The session with the component's unmount.
LifecycleNext ==
  \/ Next
  \/ Unmount

LifecycleSpec == Init /\ [][LifecycleNext]_vars

\* The FirebaseProvider from its first render, with the AuthProvider below
\* it driven by its two streams.
ClientInit ==
  /\ firebaseInitializing = TRUE
  /\ fbPhase = "render"
  /\ fbValue = NotPublished
  /\ fbSeen = {}
  /\ fbRenders = 0
  /\ mounted = FALSE
  /\ user = None
  /\ profile = Null
  /\ authLoading = TRUE
  /\ authErrorMessages = NoMessages
  /\ dirty = FALSE
  /\ view = [user |-> None, authLoading |-> TRUE]
  /\ depUser = None
  /\ effPending = FALSE
  /\ everShown = FALSE
  /\ sub = NoSub
  /\ accounts = InitialAccounts
  /\ authCur \in accounts \cup {None}
  /\ authQ = << >>
  /\ docs \in {[u \in Uid |-> Missing], [u \in Uid |-> IF u = "u1" THEN StoredDoc(u) ELSE Missing]}
  /\ loginOp = IdleLogin
  /\ logoutOp = IdleLogout
  /\ registerOp = IdleRegister
  /\ returned = NoRet
  /\ calls = << >>
  /\ nExt = 0
  /\ lastEvent = NoEvent
  /\ sawIdentity = FALSE
  /\ hook = NoHook

ClientNext ==
  \/ FirebaseRender
  \/ FirebaseEffect
  \/ FirebaseRerender
  \/ Mount
  \/ AuthStateChanged
  \/ \E v \in Uid \cup {None} : ExternalAuthChange(v)
  \/ Render
  \/ ProfileEffect
  \/ DocSnapshot
  \/ \E err \in SnapshotErrors : DocSnapshotError(err)

ClientSpec == ClientInit /\ [][ClientNext]_vars

\* The mounted session under the scheduling the runtime provides: a queued
\* stream callback is delivered, a due render and a due effect run, an owed
\* snapshot is delivered and every awaited remote call settles.  Calls by
\* the UI and changes of the service's user from outside are not owed.
Fairness ==
  /\ WF_vars(AuthStateChanged)
  /\ WF_vars(Render)
  /\ WF_vars(ProfileEffect)
  /\ WF_vars(DocSnapshot)
  /\ WF_vars(SignInResolve \/ \E ex \in SignInErrors : LoginFail(ex))
  /\ WF_vars(LoginSucceed)
  /\ WF_vars(LogoutSucceed \/ \E ex \in SignOutErrors : LogoutFail(ex))
  /\ WF_vars(RegisterSetDoc \/ \E ex \in CreateErrors : RegisterCreateFailed(ex))
  /\ WF_vars(RegisterSucceed \/ \E ex \in WriteErrors : RegisterWriteFailed(ex))

LiveSpec == Init /\ [][Next]_vars /\ Fairness

\* ------------------------------------------------- settled states
\* Nothing is in flight: no stream callback, render, effect run or snapshot
\* is owed and no operation is awaiting a remote call.
Settled ==
  /\ authQ = << >>
  /\ ~dirty
  /\ ~effPending
  /\ sub.st # "pending"
  /\ loginOp.pc = "idle"
  /\ logoutOp.pc = "idle"
  /\ registerOp.pc = "idle"

\* The session has been driven by the identity stream and the document
\* watch alone: no operation was called.
StreamsOnly == calls = << >>

C2_SettlesLoadingAfterNone == (Settled /\ StreamsOnly /\ lastEvent = None) => (IsNone(profile) /\ authErrorMessages = NoMessages /\ authLoading)

\* C2 amended: when the session has settled after a sequence of stream
\* events whose last one delivered none, user and profile are none and
\* authErrorMessages is empty; authLoading is true only if an earlier event
\* delivered an Identity, and false after sequences that delivered none only.
C2_SettlesAfterNone == (Settled /\ StreamsOnly /\ lastEvent = None) => (user = None /\ IsNone(profile) /\ authErrorMessages = NoMessages /\ (authLoading => sawIdentity))

\* Settled after an Identity whose document is missing, then none: the
\* reset has cleared the not-found message.
C2_Witness == Settled /\ StreamsOnly /\ lastEvent = None /\ sawIdentity /\ authLoading /\ docs["u1"] = Missing /\ nExt = 1

\* ------------------------------------------------- C3
\* C3: when the session has settled after a sequence of stream events whose
\* last one delivered an Identity whose document exists (and the watch did
\* not fail), profile holds that document's fields and authLoading is false.
C3_SettlesWithProfile == (Settled /\ StreamsOnly /\ lastEvent \in Uid /\ sub.st # "dead") => (docs[lastEvent] # Missing => (profile = docs[lastEvent] /\ ~authLoading))

\* ------------------------------------------------- C4
\* The messages a rejected sign-in can leave.
SignInMessages == {MsgOf(ex) : ex \in SignInErrors}

\* C4: the step in which login returns false sets authErrorMessages to the
\* one-element list holding the failure's message and leaves user, profile
\* and authLoading as they were; the call step before it changes none of
\* the four cells.
C4_LoginFailureKeepsIdentity ==
  [][/\ (returned' = Returns("login", "false")) => (/\ loginOp.pc = "awaitSignIn"
                                                      /\ Len(authErrorMessages') = 1
                                                      /\ authErrorMessages'[1] \in SignInMessages
                                                      /\ UNCHANGED <<user, profile, authLoading>>)
     /\ (loginOp.pc = "awaitSignIn" /\ loginOp'.pc = "idle") => returned'.op = "login"
     /\ (loginOp.pc = "idle" /\ loginOp'.pc = "awaitSignIn") => UNCHANGED reactVars]_vars

\* login has just returned false for a rejected password while an Identity
\* with its profile is present.
C4_Witness == returned = Returns("login", "false") /\ authErrorMessages = <<"invalid password">> /\ user = "u1" /\ ~IsNone(profile) /\ ~authLoading

\* ------------------------------------------------- C5
\* C5: the step in which login returns true stores the Identity the service
\* returned, whether or not the stream callback for that sign-in has run;
\* and once everything in flight has run, in either order, user is the
\* Identity the service holds.
C5_LoginStoresIdentity ==
  /\ [][(returned' = Returns("login", "true")) => (loginOp.pc = "resolved" /\ loginOp.uid \in Uid /\ user' = loginOp.uid)]_vars
  /\ []((Settled /\ calls = <<"login">> /\ nExt = 0) => user = authCur)

\* login has returned true and stored the Identity while the stream
\* callback for the same sign-in is still to come.
C5_Witness == returned = Returns("login", "true") /\ calls = <<"login">> /\ nExt = 0 /\ user = "u1" /\ authQ = <<"u1">> /\ lastEvent = None

\* ------------------------------------------------- C6
\* The messages a failed sign-out can leave.
SignOutMessages == {MsgOf(ex) : ex \in SignOutErrors}

\* C6: logout's call step sets user to none and the identity service has not
\* signed out yet; logout returns true in the step in which the service
\* signs out, and false, with the failure's message as authErrorMessages,
\* in a step in which it does not; and when no login continuation and no
\* stream callback ran while the call was in flight, user is none when it
\* returns.
C6_LogoutClearsIdentityFirst ==
  [][/\ (logoutOp.pc = "idle" /\ logoutOp'.pc = "awaitSignOut") => (user' = None /\ UNCHANGED <<authCur, authQ>>)
     /\ (returned' = Returns("logout", "true")) => (logoutOp.pc = "awaitSignOut" /\ authCur' = None)
     /\ (returned' = Returns("logout", "false")) => (/\ logoutOp.pc = "awaitSignOut"
                                                      /\ UNCHANGED <<authCur, authQ>>
                                                      /\ Len(authErrorMessages') = 1
                                                      /\ authErrorMessages'[1] \in SignOutMessages)
     /\ (logoutOp.pc = "awaitSignOut" /\ logoutOp'.pc = "idle") => (returned'.op = "logout" /\ (~logoutOp.touched => user' = None))]_vars

\* logout has just returned false: the service still holds its user and the
\* local identity is none.
C6_Witness == returned = Returns("logout", "false") /\ authCur = "u1" /\ user = None /\ authErrorMessages = <<"sign-out failed">>

\* ------------------------------------------------- C7
\* The messages a refused document write can leave.
WriteMessages == {ex.message : ex \in WriteErrors}

\* register was the only operation called, it created the account and its
\* document write was refused (the document is still missing).
RegisterHalfDone == calls = <<"register">> /\ nExt = 0 /\ accounts # InitialAccounts /\ docs["u2"] = Missing

\* C7: once the session has settled after a register whose identity
\* creation succeeded and whose document write failed (and the watch itself
\* did not fail), user is present, profile is none and authErrorMessages
\* contains the write failure's message.
C7_WriteFailureStaysRecorded == (Settled /\ RegisterHalfDone /\ sub.st # "dead") => (user # None /\ IsNone(profile) /\ \E i \in DOMAIN authErrorMessages : authErrorMessages[i] \in WriteMessages)

\* ------------------------------------------------- C8
\* The messages a refused account creation can leave.
CreateMessages == {ex.message : ex \in CreateErrors}

\* C8: the step in which register returns false for a failed identity
\* creation records the error with the identity-provider hint and leaves
\* the document store alone; no step taken while the creation is awaited
\* changes the store; and a step that changes the document users/<id> is
\* taken by a register call whose identity creation produced that id.
C8_FailedCreateWritesNothing ==
  [][/\ (registerOp.pc = "awaitCreate" /\ registerOp'.pc = "idle") => (/\ returned' = Returns("register", "false")
                                                                       /\ Len(authErrorMessages') = 2
                                                                       /\ authErrorMessages'[1] \in CreateMessages
                                                                       /\ authErrorMessages'[2] = EmailProviderHint)
     /\ (registerOp.pc = "awaitCreate") => docs' = docs
     /\ \A u \in Uid : (docs'[u] # docs[u]) => (registerOp.pc = "awaitSetDoc" /\ registerOp.uid = u /\ u \in accounts \ InitialAccounts)]_vars

\* register has just returned false for an address that already has an
\* account; the store holds what it held.
C8_Witness == returned = Returns("register", "false") /\ authErrorMessages = <<"email-already-in-use", EmailProviderHint>> /\ accounts = InitialAccounts /\ docs["u2"] = Missing

\* ------------------------------------------------- C9
\* The first entry authErrorMessages gets from a failure of each operation.
FailureMessages(op) == IF op = "login" THEN SignInMessages ELSE IF op = "logout" THEN SignOutMessages ELSE CreateMessages \cup WriteMessages

\* C9: every step that ends a call of login, logout or register settles its
\* promise with true or false, never with a rejection, and a step that
\* returns false has put the remote failure's message in authErrorMessages.
C9_OperationsReturnBooleans ==
  /\ [](returned.val \in {"-", "true", "false"})
  /\ [][/\ (loginOp.pc # "idle" /\ loginOp'.pc = "idle") => (returned'.op = "login" /\ returned'.val \in {"true", "false"})
        /\ (logoutOp.pc # "idle" /\ logoutOp'.pc = "idle") => (returned'.op = "logout" /\ returned'.val \in {"true", "false"})
        /\ (registerOp.pc # "idle" /\ registerOp'.pc = "idle") => (returned'.op = "register" /\ returned'.val \in {"true", "false"})
        /\ (returned'.val = "false") => (authErrorMessages' # NoMessages /\ authErrorMessages'[1] \in FailureMessages(returned'.op))]_vars

\* register has just returned false for a refused document write.
C9_Witness == returned = Returns("register", "false") /\ authErrorMessages = <<"permission-denied", FirestoreEnableHint>> /\ accounts # InitialAccounts

\* ------------------------------------------------- C10
\* C10: a call of useAuthContext from a component that is not below the
\* provider throws.
C10_HookOutsideProviderThrows == (hook.outcome # "-" /\ ~hook.inside) => hook.outcome = "throws"

\* ------------------------------------------------- C11
\* C11: a render that reads authLoading as true returns null, so that no
\* child is rendered and no context value is published; a render that reads
\* it as false publishes a value whose authLoading is false; and whenever
\* children are rendered, the context value they read has authLoading
\* false.
C11_LoadingSuppressesDescendants ==
  /\ [](RenderOutput.children => (RenderOutput.value.kind = "values" /\ RenderOutput.value.authLoading = FALSE))
  /\ [][(dirty /\ ~dirty') => IF authLoading THEN (~RenderOutput'.children /\ RenderOutput'.value = NoValues)
                                              ELSE (RenderOutput'.children /\ RenderOutput'.value.authLoading = FALSE /\ RenderOutput'.value.user = user)]_vars

\* The children had been rendered, and the last render, which read
\* authLoading as true after the reset, has removed them.
C11_Witness == everShown /\ sawIdentity /\ ~dirty /\ authLoading /\ view.authLoading /\ ~RenderOutput.children

\* ------------------------------------------------- C12
\* C12: the snapshot callback for a missing document sets profile to
\* undefined and authErrorMessages to the not-found message of the watched
\* path, the error callback of the watch sets authErrorMessages to the
\* failure's message and the hint, and neither changes user or authLoading;
\* and after a first stream event that delivered an Identity whose document
\* is missing, the session settles with that Identity, profile none, the
\* not-found message and authLoading false.
C12_StoreErrorKeepsIdentity ==
  /\ [][/\ (sub.st = "pending" /\ sub'.st = "idle" /\ docs[sub.uid] = Missing) => (/\ profile' = Undefined
                                                                                  /\ authErrorMessages' = <<NotFoundText(sub.uid)>>
                                                                                  /\ UNCHANGED <<user, authLoading>>)
        /\ (sub.st # "dead" /\ sub'.st = "dead") => (/\ Len(authErrorMessages') = 2
                                                    /\ authErrorMessages'[1] \in {err.message : err \in SnapshotErrors}
                                                    /\ authErrorMessages'[2] = FirestoreHint
                                                    /\ UNCHANGED <<user, profile, authLoading>>)]_vars
  /\ []((Settled /\ StreamsOnly /\ nExt = 0 /\ lastEvent \in Uid /\ docs[lastEvent] = Missing /\ sub.st = "idle")
          => (user = lastEvent /\ profile = Undefined /\ authErrorMessages = <<NotFoundText(lastEvent)>> /\ ~authLoading))

\* The watch of a missing document delivered its snapshot and then failed,
\* and the Identity is present with authLoading false.
C12_Witness == sub = [uid |-> "u1", st |-> "dead"] /\ user = "u1" /\ profile = Undefined /\ ~authLoading /\ authErrorMessages = <<"Missing or insufficient permissions.", FirestoreHint>>

\* ------------------------------------------------- C13
\* C13: a render of the FirebaseProvider that reads firebaseInitializing as
\* true renders no children and publishes nothing; the AuthProvider is
\* mounted only once a value has been published; every published value has
\* its three handles; and all published values hold the same handles.
C13_HandlesReadyAndStable ==
  /\ [](\A v \in fbSeen : v.myApp # NoHandle /\ v.myAuth # NoHandle /\ v.myFS # NoHandle)
  /\ [](Cardinality(fbSeen) <= 1)
  /\ [](mounted => (fbSeen # {} /\ ~firebaseInitializing))
  /\ [][(fbRenders' # fbRenders /\ firebaseInitializing) => (fbSeen' = fbSeen /\ fbValue' = NotPublished)]_vars

\* The FirebaseProvider has rendered again after publishing, and the
\* AuthProvider below it has received an Identity.
C13_Witness == fbRenders >= 3 /\ fbPhase = "idle" /\ mounted /\ user = "u1" /\ fbValue = [myApp |-> myApp, myAuth |-> myAuth, myFS |-> myFS]

\* ------------------------------------------------- C14
\* user is none and the profile-listener effect has not run since user
\* became none: the subscription it opened for the former Identity has not
\* been closed and the session has not been reset.
ResetOwed == user = None /\ depUser # None

\* The step delivers an identity-stream callback or a snapshot callback.
HandlesEvent == Len(authQ') < Len(authQ) \/ (sub'.uid = sub.uid /\ sub'.st # sub.st /\ sub'.st \in {"idle", "dead"})

\* C14: once user has changed from an Identity to none, the subscription is
\* closed and the session reset before a later stream or snapshot callback
\* is handled: no such callback runs while the reset is owed.
C14_ResetBeforeLaterEvents == [][ResetOwed => ~HandlesEvent]_vars

\* The reset itself: the effect run for user = none closes the subscription
\* and sets authLoading true, profile null and authErrorMessages empty.
C14_EffectResets == [][(effPending /\ ~effPending' /\ view.user = None) => (sub' = NoSub /\ authLoading' /\ profile' = Null /\ authErrorMessages' = NoMessages)]_vars

\* ------------------------------------------------- C15
\* A document subscription is open: its listener can still be called.
SubOpen == sub.st \in {"pending", "idle"}

\* C15: an open subscription watches the document of the current value of
\* user, and a snapshot callback that writes profile belongs to the
\* subscription of the current value of user.
C15_SubscriptionFollowsIdentity ==
  /\ [](SubOpen => sub.uid = user)
  /\ [][(sub.st = "pending" /\ sub'.st = "idle" /\ sub'.uid = sub.uid) => sub.uid = user]_vars

\* The effect's cleanup closes the former subscription in the step that
\* opens the next one: the subscription watches the Identity of the last
\* effect run.
C15_SubscriptionFollowsEffect == (SubOpen => sub.uid = depUser) /\ (depUser = None => sub = NoSub)

\* ------------------------------------------------- C16
\* C16: once the AuthProvider is unmounted, no document subscription is
\* open and no identity-stream callback is queued or gets queued by a later
\* change of the service's user, and no step changes one of the four cells.
C16_NoSubscriptionAfterUnmount ==
  /\ [](~mounted => (sub = NoSub /\ authQ = << >>))
  /\ [][~mounted => UNCHANGED <<reactVars, sub, authQ, mounted>>]_vars

\* The component was unmounted while register awaited the account's
\* creation; the service has since signed the new account in, and nothing
\* was notified.
C16_Witness == ~mounted /\ registerOp.pc = "awaitSetDoc" /\ authCur = "u2" /\ user # "u2" /\ authQ = << >> /\ sub = NoSub

\* ------------------------------------------------- C17
\* C17: a step that records an error while earlier messages are in place,
\* and no reset for an identity-to-none transition is owed, keeps the
\* earlier messages, in order, in front of the new ones.
C17_ErrorsAreAppended ==
  [][(authErrorMessages # NoMessages /\ ~ResetOwed /\ authErrorMessages' # NoMessages /\ authErrorMessages' # authErrorMessages)
       => (Len(authErrorMessages') > Len(authErrorMessages) /\ SubSeq(authErrorMessages', 1, Len(authErrorMessages)) = authErrorMessages)]_vars

\* ------------------------------------------------- C18
\* C18: when logout was called after login and has returned, the step in
\* which that login returns true stores the Identity of the account that
\* signed in.
C18_LoginAfterLogoutStoresIdentity ==
  [][(calls = <<"login", "logout">> /\ logoutOp.pc = "idle" /\ returned' = Returns("login", "true")) => (user' = UidOf(loginOp.email) /\ user' # None)]_vars

\* logout was called and returned true while login awaited its sign-in; the
\* sign-in then succeeded and login has stored its Identity.
C18_Witness == returned = Returns("login", "true") /\ calls = <<"login", "logout">> /\ logoutOp.pc = "idle" /\ authCur = "u1" /\ user = "u1"

\* ------------------------------------------------- C19
\* C19: once the first stream callback has run, whenever authLoading is
\* true it is false again later, with the steps the runtime owes and no
\* further input.
C19_LoadingReturnsToFalse == (lastEvent # NoEvent /\ authLoading) ~> ~authLoading

\* ------------------------------------------------- C20
\* C20: when profile holds a document's fields, authErrorMessages does not
\* hold the not-found message of that document.
C20_ReadyExcludesNotFound == (profile.kind = "doc") => (\A i \in DOMAIN authErrorMessages : authErrorMessages[i] # NotFoundText(profile.uid))

====
